---- MODULE Spec2Model ----
(***************************************************************************)
(* Model of the multi-step form wizard of src/src/context/formContext.tsx: *)
(* the FormProvider hook state (currentStep, formData), the context value  *)
(* it publishes on every render, the useFormContext guard, the step list   *)
(* derivation of MultiStepForm, the stepper and navigation rendering, and  *)
(* the onNext / onPrev / onSubmit handlers of MultiStepFormContent.        *)
(*                                                                         *)
(* React state is modelled as React keeps it: the hook state is the value  *)
(* the next render will see, the context value and the closures of the     *)
(* handlers are the ones of the last committed render.                     *)
(***************************************************************************)
EXTENDS Integers, Sequences, FiniteSets, TLC

\* ---------------------------------------------------------------- bounds
MaxChildren == 3
MaxVal == 1
MaxSubmits == 2

\* ------------------------------------------------------------ JS helpers
Null == [kind |-> "null"]
Undefined == [kind |-> "undefined"]

MathMin(a, b) == IF a <= b THEN a ELSE b
MathMax(a, b) == IF a >= b THEN a ELSE b

\* Arrays are 0-based functions, as in the source.
length(arr) == Cardinality(DOMAIN arr)
At(arr, i) == IF i \in DOMAIN arr THEN arr[i] ELSE Undefined

\* ------------------------------------------------------ declared children
\* A child is null or a Step; the Step declared at position j is titled Titles[j].
Titles == <<"A", "B", "C", "D", "E", "F">>
StepElement(t) == [kind |-> "step", title |-> t]
ChildrenLists ==
  UNION {{ch \in [1..n -> {Null} \cup {StepElement(Titles[j]) : j \in 1..n}] :
            \A j \in 1..n : ch[j] \in {Null, StepElement(Titles[j])}} :
         n \in 0..MaxChildren}

\* React.Children.toArray: the children in order, null children dropped.
toArray(ch) ==
  LET s == SelectSeq(ch, LAMBDA e : e.kind # "null")
  IN [i \in 0..(Len(s) - 1) |-> s[i + 1]]

\* ------------------------------------------------------------ form data
Keys == {"x"}
Bag == [Keys -> 0..MaxVal]
EmptyBag == [k \in Keys |-> 0]

\* ------------------------------------------------------------- variables
VARIABLES
  children,       \* the children prop of MultiStepForm
  currentStep,    \* useState(0) of FormProvider: the state the next render sees
  formData,       \* useState({}) of FormProvider: likewise
  ctxValue,       \* value of FormContext.Provider at the last committed render
  view,           \* what MultiStepFormContent got from useFormContext() then
  crashed,        \* the render of MultiStepFormContent threw
  activations,    \* activations of the Submit handler
  onSubmitCalls,  \* invocations of the caller's onSubmit callback
  lastSubmit,     \* argument of the last onSubmit call, and the state it was made in
  lastCall,       \* outcome of the useFormContext() call of a foreign reader, if this step was one
  nextsOnly,      \* Next activations so far (counted up to stepCount) if nothing else navigated, else -1
  lastOp          \* the operation that produced this state

vars == <<children, currentStep, formData, ctxValue, view, crashed, activations,
          onSubmitCalls, lastSubmit, lastCall, nextsOnly, lastOp>>

\* --------------------------------------------------------- FormProvider
ErrMsg == "useFormContext must be used within a FormProvider"

FormProviderValue(cs, fd) == [kind |-> "context", currentStep |-> cs, formData |-> fd]

\* useContext(FormContext): the value of the nearest provider above the
\* reader (above: the providers above it, nearest last), else the default.
useContext(above) == IF Len(above) = 0 THEN Undefined ELSE above[Len(above)]

\* useFormContext without its guard.
useFormContextNoGuard(above) == [kind |-> "return", value |-> useContext(above)]

useFormContext(above) ==
  LET context == useContext(above)
  IN IF context.kind = "undefined"
       THEN [kind |-> "throw", message |-> ErrMsg]
       ELSE [kind |-> "return", value |-> context]

\* ------------------------------------------------------- MultiStepForm
steps == toArray(children)
stepCount == length(steps)

stepsData == [i \in DOMAIN steps |-> [step |-> i + 1, title |-> steps[i].title]]

\* ------------------------------------------------------ EnhancedStepper
\* The stepper with the check mark on >= instead of >.
EnhancedStepperOffByOne(sd, cs) ==
  [i \in DOMAIN sd |->
     [step      |-> sd[i].step,
      title     |-> sd[i].title,
      filled    |-> cs >= sd[i].step,
      checkMark |-> cs >= sd[i].step,
      active    |-> cs = sd[i].step,
      connector |-> (i < length(sd) - 1) /\ (cs > sd[i].step)]]

EnhancedStepper(sd, cs) ==
  [i \in DOMAIN sd |->
     [step      |-> sd[i].step,
      title     |-> sd[i].title,
      filled    |-> cs >= sd[i].step,
      checkMark |-> cs > sd[i].step,
      active    |-> cs = sd[i].step,
      connector |-> (i < length(sd) - 1) /\ (cs > sd[i].step)]]

\* ----------------------------------------------------------- Navigation
\* Navigation with the branches of the isLastStep conditional swapped.
NavigationSwapped(isFirstStep, isLastStep) ==
  [prevDisabled |-> isFirstStep,
   forward      |-> IF isLastStep THEN "Next" ELSE "Submit"]

Navigation(isFirstStep, isLastStep) ==
  [prevDisabled |-> isFirstStep,
   forward      |-> IF isLastStep THEN "Submit" ELSE "Next"]

\* ------------------------------------------ MultiStepFormContent render
Stepper == EnhancedStepper(stepsData, view.currentStep + 1)

\* The content indexed by the 1-based ordinal.
ContentByOrdinal == At(steps, view.currentStep + 1)

Content == At(steps, view.currentStep)
Nav == Navigation(view.currentStep = 0, view.currentStep = length(steps) - 1)

NextOffered == ~crashed /\ Nav.forward = "Next"
SubmitOffered == ~crashed /\ Nav.forward = "Submit"
PrevDisabled == Nav.prevDisabled
PrevOperable == ~crashed /\ ~PrevDisabled

\* One committed render pass: FormProvider publishes its state, and
\* MultiStepFormContent below it reads it back through useFormContext().
Commit(cs, fd) ==
  LET value == FormProviderValue(cs, fd)
      r == useFormContext(<<value>>)
  IN /\ ctxValue' = value
     /\ crashed' = (r.kind = "throw")
     /\ view' = IF r.kind = "return" THEN r.value ELSE view

\* ------------------------------------------------------------- handlers
\* The updaters without their clamp, and onNext advancing by two.
onNextNoClamp(prev) == prev + 1
onNextByTwo(prev) == MathMin(prev + 2, length(steps) - 1)
onPrevNoClamp(prev) == prev - 1

onNext(prev) == MathMin(prev + 1, length(steps) - 1)
onPrev(prev) == MathMax(prev - 1, 0)

\* handleSubmit: the invocations of onSubmit one activation makes.
handleSubmit(fd) == <<fd>>

NoSubmit == [arg |-> EmptyBag, bag |-> EmptyBag, step |-> 0]
NoCall == [underProvider |-> FALSE, result |-> [kind |-> "none"]]

Init ==
  /\ children \in ChildrenLists
  /\ currentStep = 0
  /\ formData = EmptyBag
  /\ ctxValue = FormProviderValue(0, EmptyBag)
  /\ view = FormProviderValue(0, EmptyBag)
  /\ crashed = FALSE
  /\ activations = 0
  /\ onSubmitCalls = 0
  /\ lastSubmit = NoSubmit
  /\ lastCall = NoCall
  /\ nextsOnly = 0
  /\ lastOp = "mount"

\* setCurrentStep(updater) from a click: the updater runs on the hook
\* state, and React commits the render before the next event. A formData
\* update still pending from outside an event may or may not be part of it.
Navigate(to, op) ==
  /\ currentStep' = to
  /\ \E fd \in {view.formData, formData} : Commit(to, fd)
  /\ lastOp' = op
  /\ lastCall' = NoCall
  /\ UNCHANGED <<children, formData, activations, onSubmitCalls, lastSubmit>>

DoNext ==
  /\ Navigate(onNext(currentStep), "next")
  /\ nextsOnly' = IF nextsOnly < 0 THEN -1 ELSE MathMin(nextsOnly + 1, MathMax(stepCount, 1))

DoPrev ==
  /\ Navigate(onPrev(currentStep), "prev")
  /\ nextsOnly' = -1

\* Submit that also sends the wizard back to the first step.
DoSubmitAndReset ==
  /\ activations < MaxSubmits
  /\ onSubmitCalls' = onSubmitCalls + 1
  /\ lastSubmit' = [arg |-> view.formData, bag |-> formData, step |-> currentStep]
  /\ activations' = activations + 1
  /\ currentStep' = 0
  /\ Commit(0, view.formData)
  /\ lastOp' = "submit"
  /\ lastCall' = NoCall
  /\ UNCHANGED <<children, formData, nextsOnly>>

DoSubmit ==
  /\ activations < MaxSubmits
  /\ LET calls == handleSubmit(view.formData)
     IN /\ onSubmitCalls' = onSubmitCalls + Len(calls)
        /\ lastSubmit' = IF Len(calls) = 0 THEN lastSubmit
                         ELSE [arg |-> calls[Len(calls)], bag |-> formData,
                               step |-> currentStep]
  /\ activations' = activations + 1
  /\ lastOp' = "submit"
  /\ lastCall' = NoCall
  /\ UNCHANGED <<children, currentStep, formData, ctxValue, view, crashed, nextsOnly>>

\* The controls Navigation renders, activated by the user.
ClickNext == NextOffered /\ DoNext
ClickPrev == PrevOperable /\ DoPrev
ClickSubmit == SubmitOffered /\ DoSubmit

\* The handlers passed to Navigation, invoked whatever the rendered controls.
CallOnNext == ~crashed /\ DoNext
CallOnPrev == ~crashed /\ DoPrev
CallOnSubmit == ~crashed /\ DoSubmit

\* setFormData(v) by the caller's step content: inside an event handler React
\* commits the render before the next event (sync), elsewhere (a timer, a
\* promise, a transition) the render is scheduled and comes later.
SetFormData ==
  /\ ~crashed
  /\ \E v \in Bag, sync \in BOOLEAN :
       /\ formData' = v
       /\ IF sync THEN Commit(currentStep, v)
                  ELSE UNCHANGED <<ctxValue, view, crashed>>
  /\ lastOp' = "setFormData"
  /\ lastCall' = NoCall
  /\ UNCHANGED <<children, currentStep, activations, onSubmitCalls, lastSubmit,
                 nextsOnly>>

\* The scheduled render of a pending formData update.
RenderPending ==
  /\ ~crashed
  /\ ctxValue.formData # formData
  /\ Commit(currentStep, formData)
  /\ lastOp' = "render"
  /\ lastCall' = NoCall
  /\ UNCHANGED <<children, currentStep, formData, activations, onSubmitCalls,
                 lastSubmit, nextsOnly>>

\* A component calls useFormContext(), below the wizard's provider or below none.
ReadContext ==
  /\ \E inside \in BOOLEAN :
       lastCall' = [underProvider |-> inside,
                    result |-> useFormContext(IF inside THEN <<ctxValue>> ELSE <<>>)]
  /\ lastOp' = "read"
  /\ UNCHANGED <<children, currentStep, formData, ctxValue, view, crashed, activations,
                 onSubmitCalls, lastSubmit, nextsOnly>>

\* The wizard as the user drives it.
Next ==
  \/ ClickNext
  \/ ClickPrev
  \/ ClickSubmit
  \/ SetFormData
  \/ RenderPending
  \/ ReadContext

Spec == Init /\ [][Next]_vars

\* The handlers driven directly, in any order and at the bounds.
NextHandlers ==
  \/ CallOnNext
  \/ CallOnPrev
  \/ CallOnSubmit
  \/ SetFormData
  \/ RenderPending

SpecHandlers == Init /\ [][NextHandlers]_vars

\* ================================================================ claims

InRange == currentStep \in 0..(stepCount - 1)

\* C1: for every stepCount >= 1, after any sequence of Next, Previous and
\* Submit activations, the handlers invoked at the bounds included,
\* 0 <= currentStep <= stepCount-1 (in the hook state and in the render).
C1_StepInRange ==
  stepCount >= 1 =>
    /\ 0 <= currentStep /\ currentStep <= stepCount - 1
    /\ view.currentStep = currentStep

\* Next was invoked more often than there are steps to advance over.
C1_Witness ==
  /\ stepCount >= 2
  /\ lastOp = "next"
  /\ nextsOnly > stepCount - 1
  /\ currentStep = stepCount - 1

\* C2: Next moves currentStep up by exactly one below the last step and is a
\* no-op on it, Previous moves it down by exactly one above the first step
\* and is a no-op on it; neither raises an error.
C2_NextPrevSaturate ==
  [][(stepCount >= 1 /\ InRange) =>
       /\ (lastOp' = "next" =>
             /\ currentStep < stepCount - 1 => currentStep' = currentStep + 1
             /\ currentStep = stepCount - 1 => currentStep' = currentStep
             /\ ~crashed')
       /\ (lastOp' = "prev" =>
             /\ currentStep > 0 => currentStep' = currentStep - 1
             /\ currentStep = 0 => currentStep' = currentStep
             /\ ~crashed')]_vars

\* Next was invoked on a one-step wizard, where first and last step coincide.
C2_Witness ==
  /\ stepCount = 1
  /\ lastOp = "next"
  /\ nextsOnly = 1
  /\ currentStep = 0

\* C3: every activation of Submit invokes the completion callback exactly
\* once, with the value the form data bag holds at that moment; no callback
\* invocation happens without an activation.
C3_SubmitPassesCurrentBag ==
  stepCount >= 1 =>
    /\ onSubmitCalls = activations
    /\ (onSubmitCalls > 0 =>
          /\ lastSubmit.step = stepCount - 1
          /\ lastSubmit.arg = lastSubmit.bag)

\* C4: with stepCount >= 1, Submit is offered iff currentStep = stepCount-1,
\* Next iff currentStep < stepCount-1, exactly one of the two is offered,
\* Previous is disabled iff currentStep = 0, and the completion callback is
\* never invoked on another step than the last.
C4_ControlsMatchStep ==
  stepCount >= 1 =>
    /\ SubmitOffered <=> (currentStep = stepCount - 1)
    /\ NextOffered <=> (currentStep < stepCount - 1)
    /\ NextOffered # SubmitOffered
    /\ PrevDisabled <=> (currentStep = 0)
    /\ (onSubmitCalls > 0 => lastSubmit.step = stepCount - 1)

\* Submit was activated on the last of several steps.
C4_Witness ==
  /\ stepCount >= 2
  /\ lastOp = "submit"
  /\ onSubmitCalls > 0
  /\ lastSubmit.step = stepCount - 1

\* C5: Submit leaves currentStep (and the render) unchanged and locks
\* nothing: after any Submit, Previous and Next still make their transitions
\* (Previous right after Submit goes from stepCount-1 to stepCount-2 when
\* stepCount >= 2), Submit is offered whenever the last step is shown and a
\* wizard of several steps always has an operable navigation control.
C5_SubmitLocksNothing ==
  [][stepCount >= 1 =>
       /\ (lastOp' = "submit" => currentStep' = currentStep /\ view' = view)
       /\ (activations > 0 /\ lastOp' = "prev" =>
             /\ PrevOperable
             /\ currentStep' = MathMax(currentStep - 1, 0))
       /\ (activations > 0 /\ lastOp' = "next" =>
             /\ NextOffered
             /\ currentStep' = MathMin(currentStep + 1, stepCount - 1))
       /\ (lastOp = "submit" /\ lastOp' = "prev" /\ stepCount >= 2 =>
             currentStep = stepCount - 1 /\ currentStep' = stepCount - 2)
       /\ (activations' > 0 =>
             /\ (currentStep' = stepCount - 1 => SubmitOffered')
             /\ (stepCount >= 2 => NextOffered' \/ PrevOperable'))]_vars

\* Previous has moved the wizard off the last step after a Submit.
C5_Witness ==
  /\ stepCount >= 2
  /\ activations > 0
  /\ lastOp = "prev"
  /\ currentStep = stepCount - 2

\* C6: with stepCount >= 1 the stepper has one entry per declared step,
\* ordinals 1..stepCount; it marks completed (check mark) exactly the
\* entries with ordinal < currentStep+1, active exactly the one entry with
\* ordinal currentStep+1, and leaves pending (neither mark) exactly those
\* with ordinal > currentStep+1: three disjoint classes covering all steps.
C6_StepperClasses ==
  stepCount >= 1 =>
    LET st == Stepper
        completed == {i \in DOMAIN st : st[i].checkMark}
        active == {i \in DOMAIN st : st[i].active}
        pending == {i \in DOMAIN st : ~st[i].checkMark /\ ~st[i].active}
    IN /\ {st[i].step : i \in DOMAIN st} = 1..stepCount
       /\ Cardinality(DOMAIN st) = stepCount
       /\ completed = {i \in DOMAIN st : st[i].step < currentStep + 1}
       /\ active = {i \in DOMAIN st : st[i].step = currentStep + 1}
       /\ Cardinality(active) = 1
       /\ pending = {i \in DOMAIN st : st[i].step > currentStep + 1}
       /\ completed \cap active = {}
       /\ completed \cup active \cup pending = DOMAIN st

\* The middle step of three is shown: each class has one member.
C6_Witness ==
  /\ stepCount = 3
  /\ currentStep = 1
  /\ lastOp = "next"

\* C7: useFormContext() below no provider raises the designated error and
\* returns nothing; below the wizard's provider it never raises (the
\* wizard's own render included) and returns the provider's currentStep and
\* the formData the provider published.
C7_ContextGuard ==
  /\ ~crashed
  /\ (lastOp = "read" =>
        IF lastCall.underProvider
          THEN /\ lastCall.result.kind = "return"
               /\ lastCall.result.value.currentStep = currentStep
               /\ lastCall.result.value.formData = ctxValue.formData
               /\ lastCall.result.value = view
          ELSE lastCall.result = [kind |-> "throw", message |-> ErrMsg])

\* A reader below no provider has called the hook.
C7_Witness ==
  /\ lastOp = "read"
  /\ ~lastCall.underProvider
  /\ lastCall.result.kind = "throw"

\* C8: a mounted wizard starts on step 0 with Previous disabled; after k
\* Next activations and no other navigation currentStep = k <= stepCount-1,
\* Next is offered before the last step and Submit on it.
C8_NextsReachEveryStep ==
  stepCount >= 1 =>
    /\ (lastOp = "mount" => currentStep = 0 /\ PrevDisabled)
    /\ (nextsOnly >= 0 =>
          /\ currentStep = nextsOnly
          /\ nextsOnly <= stepCount - 1
          /\ (nextsOnly = 0 => PrevDisabled)
          /\ (nextsOnly < stepCount - 1 => NextOffered /\ ~SubmitOffered)
          /\ (nextsOnly = stepCount - 1 => SubmitOffered /\ ~NextOffered))

\* Three steps, two Next activations: the third step with Submit.
C8_Witness ==
  /\ stepCount = 3
  /\ nextsOnly = 2
  /\ lastOp = "next"
  /\ currentStep = 2
  /\ SubmitOffered

\* C9: Next, Previous and Submit leave formData unchanged, it changes only
\* by setFormData, and the bag handed to the completion callback is the one
\* the step content stored last.
C9_BagOnlyForwarded ==
  [][stepCount >= 1 =>
       /\ (lastOp' \in {"next", "prev", "submit"} => formData' = formData)
       /\ (formData' # formData => lastOp' = "setFormData")
       /\ (onSubmitCalls' # onSubmitCalls => lastSubmit'.arg = formData)]_vars

\* The child of the declared children that is the (currentStep+1)-th step.
DeclaredAt(k) ==
  {j \in 1..Len(children) :
     /\ children[j].kind = "step"
     /\ Cardinality({m \in 1..(j - 1) : children[m].kind = "step"}) = k}

====
